---- MODULE Spec2Model ----
(***************************************************************************)
(* Model of three fragments of the Zephyr tree:                            *)
(*   - soc/riscv/esp32c3/power.c : pm_state_set, pm_state_exit_post_ops    *)
(*   - the filesystem sample's lsdir()                                     *)
(* The power handler is modelled statement by statement together with the  *)
(* interrupt behaviour of the core it runs on; lsdir is modelled statement *)
(* by statement against a directory whose reads may fail.                  *)
(***************************************************************************)
EXTENDS Integers, Sequences, FiniteSets, TLC

\* ------------------------------------------------------------------ bounds

\* substate_id is a uint8_t; the model draws it from 0..MaxSubstate.
MaxSubstate == 2

\* The largest directory lsdir is run against.
MaxEntries == 3

\* --------------------------------------------------------------- variables

VARIABLES
    \* --- power handler
    pc,            \* position of the core inside the handler, "idle" outside
    op,            \* which entry point the framework called last
    state,         \* argument: enum pm_state
    substate_id,   \* argument: uint8_t
    calls,         \* hardware calls recorded since the handler was entered
    log,           \* log records emitted since the handler was entered
    result,        \* how the last call ended: "none", "returned", "deep_sleep"
    sys,           \* "Active", "Halted" (in wfi), "LightSleep", "DeepSleep"
    irqEnabled,    \* mstatus.MIE
    irqPending,    \* an enabled interrupt source is pending
    entryIrq,      \* the interrupt pending when the handler was entered
    pdRtcPeriph,   \* sleep power-domain option of ESP_PD_DOMAIN_RTC_PERIPH
    prev,          \* the call before the current one and how it ended
    \* --- lsdir
    ls_pc,         \* position inside lsdir
    dir,           \* the directory's entries on the medium
    pos,           \* read position of dirp
    res,           \* local int res
    count,         \* local int count
    entry,         \* static struct fs_dirent entry
    listed,        \* entries printed by the loop
    fsCalls,       \* fs_* calls made, in order
    ret            \* lsdir's return value once ls_pc = "ret"

pvars == <<pc, op, state, substate_id, calls, log, result, sys, irqEnabled,
           irqPending, entryIrq, pdRtcPeriph, prev>>
lvars == <<ls_pc, dir, pos, res, count, entry, listed, fsCalls, ret>>
vars == <<pvars, lvars>>

\* ------------------------------------------------------- power handler data

\* enum pm_state of the power-management framework.
PmStates == {"PM_STATE_ACTIVE", "PM_STATE_RUNTIME_IDLE",
             "PM_STATE_SUSPEND_TO_IDLE", "PM_STATE_STANDBY",
             "PM_STATE_SUSPEND_TO_RAM", "PM_STATE_SUSPEND_TO_DISK",
             "PM_STATE_SOFT_OFF"}

Unsupported == PmStates \ {"PM_STATE_SOFT_OFF", "PM_STATE_STANDBY"}

Substates == 0..MaxSubstate

\* The hardware calls the handler can make.
PdConfigCall == <<"esp_sleep_pd_config", "ESP_PD_DOMAIN_RTC_PERIPH", "ESP_PD_OPTION_ON">>
DeepSleepCall == <<"esp_deep_sleep_start">>
IrqUnlockCall == <<"irq_unlock", "MSTATUS_IEN">>
WfiCall == <<"wfi">>
LightSleepCall == <<"esp_light_sleep_start">>

LogDbg(s) == <<"LOG_DBG", "Unsupported power state", s>>

NoCall == [op |-> "none", state |-> "PM_STATE_ACTIVE", substate_id |-> 0,
           calls |-> <<>>, log |-> <<>>, result |-> "none"]

\* The core executes the next instruction of the handler only when it is
\* running and no trap is due: with mstatus.MIE set a pending interrupt is
\* taken before the next instruction.
CanExecute == sys = "Active" /\ ~(irqEnabled /\ irqPending)

\* ------------------------------------------------------------ lsdir data

EntryTypes == {"FS_DIR_ENTRY_FILE", "FS_DIR_ENTRY_DIR"}

\* Directory entries: a non-empty name (its index stands for it) and a type.
RECURSIVE DirsOfLen(_)
DirsOfLen(n) ==
    IF n = 0 THEN {<<>>}
    ELSE {Append(d, [name |-> n, type |-> t]) : d \in DirsOfLen(n - 1), t \in EntryTypes}

Dirs == UNION {DirsOfLen(n) : n \in 0..MaxEntries}

\* Negative errno values fs_opendir and fs_readdir report (-ENOENT, -EIO).
FsErrnos == {-2, -5}

\* entry.name[0] == 0
EndOfDir == [name |-> 0, type |-> "FS_DIR_ENTRY_FILE"]

LsIdle ==
    /\ ls_pc = "idle" /\ dir = <<>> /\ pos = 0 /\ res = 0 /\ count = 0
    /\ entry = EndOfDir /\ listed = <<>> /\ fsCalls = <<>> /\ ret = 0

\* ------------------------------------------------- power handler: framework

\* After boot: the system is Active, interrupts enabled, no call made yet;
\* lsdir is not running.
Init ==
    /\ pc = "idle" /\ op = "none" /\ state = "PM_STATE_ACTIVE" /\ substate_id = 0
    /\ calls = <<>> /\ log = <<>> /\ result = "none"
    /\ sys = "Active" /\ irqEnabled = TRUE /\ irqPending = FALSE
    /\ entryIrq = "none" /\ pdRtcPeriph = "ESP_PD_OPTION_AUTO"
    /\ prev = NoCall
    /\ LsIdle

\* The framework calls one of the two entry points, interrupts locked.
FrameworkCall ==
    /\ pc = "idle" /\ sys = "Active"
    /\ \E o \in {"enter", "exit_post_ops"}, s \in PmStates, sub \in Substates :
        /\ op' = o /\ state' = s /\ substate_id' = sub
        /\ pc' = IF o = "enter" THEN "set_switch" ELSE "exit_switch"
    /\ prev' = [op |-> op, state |-> state, substate_id |-> substate_id,
                calls |-> calls, log |-> log, result |-> result]
    /\ calls' = <<>> /\ log' = <<>> /\ result' = "none"
    /\ irqEnabled' = FALSE
    /\ entryIrq' = IF irqPending THEN "pending" ELSE "none"
    /\ UNCHANGED <<sys, irqPending, pdRtcPeriph>>
    /\ UNCHANGED lvars

\* -------------------------------------------------- pm_state_set (enter)

\* Fault variant: PM_STATE_SUSPEND_TO_DISK is dispatched to the soft-off case.
pm_state_set_switch_DiskAsSoftOff ==
    /\ pc = "set_switch" /\ CanExecute
    /\ pc' = CASE state \in {"PM_STATE_SOFT_OFF", "PM_STATE_SUSPEND_TO_DISK"} -> "set_pd_config"
               [] state = "PM_STATE_STANDBY" -> "set_standby"
               [] OTHER -> "set_default"
    /\ UNCHANGED <<op, state, substate_id, calls, log, result, sys, irqEnabled,
                   irqPending, entryIrq, pdRtcPeriph, prev>>
    /\ UNCHANGED lvars

\* switch (state)
pm_state_set_switch ==
    /\ pc = "set_switch" /\ CanExecute
    /\ pc' = CASE state = "PM_STATE_SOFT_OFF" -> "set_pd_config"
               [] state = "PM_STATE_STANDBY" -> "set_standby"
               [] OTHER -> "set_default"
    /\ UNCHANGED <<op, state, substate_id, calls, log, result, sys, irqEnabled,
                   irqPending, entryIrq, pdRtcPeriph, prev>>
    /\ UNCHANGED lvars

\* Fault variant: the domain is configured with ESP_PD_OPTION_OFF.
pm_state_set_pd_config_OptionOff ==
    /\ pc = "set_pd_config" /\ CanExecute
    /\ calls' = Append(calls, <<"esp_sleep_pd_config", "ESP_PD_DOMAIN_RTC_PERIPH", "ESP_PD_OPTION_OFF">>)
    /\ pdRtcPeriph' = "ESP_PD_OPTION_OFF"
    /\ pc' = "set_deep_sleep"
    /\ UNCHANGED <<op, state, substate_id, log, result, sys, irqEnabled,
                   irqPending, entryIrq, prev>>
    /\ UNCHANGED lvars

\* esp_sleep_pd_config(ESP_PD_DOMAIN_RTC_PERIPH, ESP_PD_OPTION_ON);
pm_state_set_pd_config ==
    /\ pc = "set_pd_config" /\ CanExecute
    /\ calls' = Append(calls, PdConfigCall)
    /\ pdRtcPeriph' = "ESP_PD_OPTION_ON"
    /\ pc' = "set_deep_sleep"
    /\ UNCHANGED <<op, state, substate_id, log, result, sys, irqEnabled,
                   irqPending, entryIrq, prev>>
    /\ UNCHANGED lvars

\* Fault variant: the deep-sleep request comes back and the function returns.
pm_state_set_deep_sleep_start_Returns ==
    /\ pc = "set_deep_sleep" /\ CanExecute
    /\ calls' = Append(calls, DeepSleepCall)
    /\ pc' = "idle" /\ result' = "returned"
    /\ UNCHANGED <<op, state, substate_id, log, sys, irqEnabled, irqPending,
                   entryIrq, pdRtcPeriph, prev>>
    /\ UNCHANGED lvars

\* esp_deep_sleep_start(); the chip powers down and the call does not return.
pm_state_set_deep_sleep_start ==
    /\ pc = "set_deep_sleep" /\ CanExecute
    /\ calls' = Append(calls, DeepSleepCall)
    /\ sys' = "DeepSleep"
    /\ result' = "deep_sleep"
    /\ pc' = "set_in_deep_sleep"
    /\ UNCHANGED <<op, state, substate_id, log, irqEnabled, irqPending,
                   entryIrq, pdRtcPeriph, prev>>
    /\ UNCHANGED lvars

\* Fault variant: the standby case of pm_state_set requests light sleep itself.
pm_state_set_standby_Sleeps ==
    /\ pc = "set_standby" /\ CanExecute
    /\ calls' = Append(calls, LightSleepCall)
    /\ pc' = "idle" /\ result' = "returned"
    /\ UNCHANGED <<op, state, substate_id, log, sys, irqEnabled,
                   irqPending, entryIrq, pdRtcPeriph, prev>>
    /\ UNCHANGED lvars

\* case PM_STATE_STANDBY: break;  then the function returns
pm_state_set_standby ==
    /\ pc = "set_standby" /\ CanExecute
    /\ pc' = "idle" /\ result' = "returned"
    /\ UNCHANGED <<op, state, substate_id, calls, log, sys, irqEnabled,
                   irqPending, entryIrq, pdRtcPeriph, prev>>
    /\ UNCHANGED lvars

\* default: LOG_DBG("Unsupported power state %u", state); break;
pm_state_set_default ==
    /\ pc = "set_default" /\ CanExecute
    /\ log' = Append(log, LogDbg(state))
    /\ pc' = "idle" /\ result' = "returned"
    /\ UNCHANGED <<op, state, substate_id, calls, sys, irqEnabled,
                   irqPending, entryIrq, pdRtcPeriph, prev>>
    /\ UNCHANGED lvars

\* --------------------------------------------- pm_state_exit_post_ops

\* Fault variant: the standby case is taken only for substate 0.
pm_state_exit_post_ops_switch_Substate ==
    /\ pc = "exit_switch" /\ CanExecute
    /\ pc' = CASE state = "PM_STATE_SOFT_OFF" -> "exit_soft_off"
               [] state = "PM_STATE_STANDBY" /\ substate_id = 0 -> "exit_irq_unlock"
               [] OTHER -> "exit_default"
    /\ UNCHANGED <<op, state, substate_id, calls, log, result, sys, irqEnabled,
                   irqPending, entryIrq, pdRtcPeriph, prev>>
    /\ UNCHANGED lvars

\* switch (state)
pm_state_exit_post_ops_switch ==
    /\ pc = "exit_switch" /\ CanExecute
    /\ pc' = CASE state = "PM_STATE_SOFT_OFF" -> "exit_soft_off"
               [] state = "PM_STATE_STANDBY" -> "exit_irq_unlock"
               [] OTHER -> "exit_default"
    /\ UNCHANGED <<op, state, substate_id, calls, log, result, sys, irqEnabled,
                   irqPending, entryIrq, pdRtcPeriph, prev>>
    /\ UNCHANGED lvars

\* Fault variant: the soft-off case of pm_state_exit_post_ops unlocks interrupts.
pm_state_exit_post_ops_soft_off_Unlocks ==
    /\ pc = "exit_soft_off" /\ CanExecute
    /\ irqEnabled' = TRUE
    /\ pc' = "idle" /\ result' = "returned"
    /\ UNCHANGED <<op, state, substate_id, calls, log, sys,
                   irqPending, entryIrq, pdRtcPeriph, prev>>
    /\ UNCHANGED lvars

\* case PM_STATE_SOFT_OFF: break;  then the function returns
pm_state_exit_post_ops_soft_off ==
    /\ pc = "exit_soft_off" /\ CanExecute
    /\ pc' = "idle" /\ result' = "returned"
    /\ UNCHANGED <<op, state, substate_id, calls, log, sys, irqEnabled,
                   irqPending, entryIrq, pdRtcPeriph, prev>>
    /\ UNCHANGED lvars

\* irq_unlock(MSTATUS_IEN);
pm_state_exit_post_ops_irq_unlock ==
    /\ pc = "exit_irq_unlock" /\ CanExecute
    /\ calls' = Append(calls, IrqUnlockCall)
    /\ irqEnabled' = TRUE
    /\ pc' = "exit_wfi"
    /\ UNCHANGED <<op, state, substate_id, log, result, sys, irqPending,
                   entryIrq, pdRtcPeriph, prev>>
    /\ UNCHANGED lvars

\* Fault variant: the wfi instruction is missing.
pm_state_exit_post_ops_wfi_Missing ==
    /\ pc = "exit_wfi" /\ CanExecute
    /\ pc' = "exit_light_sleep"
    /\ UNCHANGED <<op, state, substate_id, calls, log, result, sys, irqEnabled,
                   irqPending, entryIrq, pdRtcPeriph, prev>>
    /\ UNCHANGED lvars

\* __asm__ volatile("wfi"); the core halts unless an interrupt is pending.
pm_state_exit_post_ops_wfi ==
    /\ pc = "exit_wfi" /\ CanExecute
    /\ calls' = Append(calls, WfiCall)
    /\ IF irqPending
       THEN sys' = "Active" /\ pc' = "exit_light_sleep"
       ELSE sys' = "Halted" /\ pc' = "exit_wfi_halted"
    /\ UNCHANGED <<op, state, substate_id, log, result, irqEnabled, irqPending,
                   entryIrq, pdRtcPeriph, prev>>
    /\ UNCHANGED lvars

\* Fault variant: esp_deep_sleep_start is called in place of
\* esp_light_sleep_start.
pm_state_exit_post_ops_light_sleep_start_Deep ==
    /\ pc = "exit_light_sleep" /\ CanExecute
    /\ calls' = Append(calls, DeepSleepCall)
    /\ sys' = "DeepSleep"
    /\ result' = "deep_sleep"
    /\ pc' = "set_in_deep_sleep"
    /\ UNCHANGED <<op, state, substate_id, log, irqEnabled, irqPending,
                   entryIrq, pdRtcPeriph, prev>>
    /\ UNCHANGED lvars

\* esp_light_sleep_start(); the call returns when a wake source fires.
pm_state_exit_post_ops_light_sleep_start ==
    /\ pc = "exit_light_sleep" /\ CanExecute
    /\ calls' = Append(calls, LightSleepCall)
    /\ sys' = "LightSleep"
    /\ pc' = "exit_in_light_sleep"
    /\ UNCHANGED <<op, state, substate_id, log, result, irqEnabled, irqPending,
                   entryIrq, pdRtcPeriph, prev>>
    /\ UNCHANGED lvars

\* break; then the function returns
pm_state_exit_post_ops_return ==
    /\ pc = "exit_break" /\ CanExecute
    /\ pc' = "idle" /\ result' = "returned"
    /\ UNCHANGED <<op, state, substate_id, calls, log, sys, irqEnabled,
                   irqPending, entryIrq, pdRtcPeriph, prev>>
    /\ UNCHANGED lvars

\* default: LOG_DBG("Unsupported power state %u", state); break;
pm_state_exit_post_ops_default ==
    /\ pc = "exit_default" /\ CanExecute
    /\ log' = Append(log, LogDbg(state))
    /\ pc' = "idle" /\ result' = "returned"
    /\ UNCHANGED <<op, state, substate_id, calls, sys, irqEnabled,
                   irqPending, entryIrq, pdRtcPeriph, prev>>
    /\ UNCHANGED lvars

\* ------------------------------------------------ the core and its wake-ups

\* An interrupt source raises its line.
IrqArrive ==
    /\ sys # "DeepSleep" /\ ~irqPending
    /\ irqPending' = TRUE
    /\ UNCHANGED <<pc, op, state, substate_id, calls, log, result, sys,
                   irqEnabled, entryIrq, pdRtcPeriph, prev>>
    /\ UNCHANGED lvars

\* With mstatus.MIE set the running core takes the pending interrupt and its
\* handler clears the source.
Isr ==
    /\ sys = "Active" /\ irqEnabled /\ irqPending
    /\ irqPending' = FALSE
    /\ entryIrq' = IF entryIrq = "pending" THEN "serviced" ELSE entryIrq
    /\ UNCHANGED <<pc, op, state, substate_id, calls, log, result, sys,
                   irqEnabled, pdRtcPeriph, prev>>
    /\ UNCHANGED lvars

\* A pending interrupt ends wfi.
WfiWake ==
    /\ pc = "exit_wfi_halted" /\ sys = "Halted" /\ irqPending
    /\ sys' = "Active" /\ pc' = "exit_light_sleep"
    /\ UNCHANGED <<op, state, substate_id, calls, log, result, irqEnabled,
                   irqPending, entryIrq, pdRtcPeriph, prev>>
    /\ UNCHANGED lvars

\* A wake source ends light sleep and esp_light_sleep_start returns.
LightSleepWake ==
    /\ pc = "exit_in_light_sleep" /\ sys = "LightSleep" /\ irqPending
    /\ sys' = "Active" /\ pc' = "exit_break"
    /\ UNCHANGED <<op, state, substate_id, calls, log, result, irqEnabled,
                   irqPending, entryIrq, pdRtcPeriph, prev>>
    /\ UNCHANGED lvars

\* A wake event ends deep sleep through reset: the system boots again.
WakeReset ==
    /\ sys = "DeepSleep"
    /\ sys' = "Active" /\ pc' = "idle"
    /\ irqEnabled' = TRUE /\ irqPending' = FALSE /\ entryIrq' = "none"
    /\ pdRtcPeriph' = "ESP_PD_OPTION_AUTO"
    /\ UNCHANGED <<op, state, substate_id, calls, log, result, prev>>
    /\ UNCHANGED lvars

HandlerStep ==
    \/ pm_state_set_switch
    \/ pm_state_set_pd_config
    \/ pm_state_set_deep_sleep_start
    \/ pm_state_set_standby
    \/ pm_state_set_default
    \/ pm_state_exit_post_ops_switch
    \/ pm_state_exit_post_ops_soft_off
    \/ pm_state_exit_post_ops_irq_unlock
    \/ pm_state_exit_post_ops_wfi
    \/ pm_state_exit_post_ops_light_sleep_start
    \/ pm_state_exit_post_ops_return
    \/ pm_state_exit_post_ops_default

Next ==
    \/ FrameworkCall
    \/ HandlerStep
    \/ IrqArrive
    \/ Isr
    \/ WfiWake
    \/ LightSleepWake
    \/ WakeReset

Spec == Init /\ [][Next]_vars

\* ------------------------------------------------------------------ lsdir

\* lsdir is entered: int count = 0; fs_dir_t_init(&dirp); the static entry
\* is zero-initialised.
LsInit ==
    /\ dir \in Dirs
    /\ ls_pc = "opendir" /\ pos = 0 /\ res = 0 /\ count = 0
    /\ entry = EndOfDir /\ listed = <<>> /\ fsCalls = <<>> /\ ret = 0
    /\ pc = "idle" /\ op = "none" /\ state = "PM_STATE_ACTIVE" /\ substate_id = 0
    /\ calls = <<>> /\ log = <<>> /\ result = "none"
    /\ sys = "Active" /\ irqEnabled = TRUE /\ irqPending = FALSE
    /\ entryIrq = "none" /\ pdRtcPeriph = "ESP_PD_OPTION_AUTO"
    /\ prev = NoCall

\* if (res || entry.name[0] == 0) break;
LoopBreak(r, e) == r # 0 \/ e.name = 0

\* Fault variant: the count is returned whatever res holds.
ReturnValue_AlwaysCount(r, c) == c

\* if (res == 0) { res = count; }  return res;
ReturnValue(r, c) == IF r = 0 THEN c ELSE r

\* printk("[DIR ] %s") or printk("[FILE] %s (size = %zu)")
Line(e) == <<IF e.type = "FS_DIR_ENTRY_DIR" THEN "[DIR ]" ELSE "[FILE]", e.name>>

\* res = fs_opendir(&dirp, path); if (res) { ...; return res; }
lsdir_opendir ==
    /\ ls_pc = "opendir"
    /\ \E r \in {0} \cup FsErrnos :
        /\ res' = r
        /\ fsCalls' = Append(fsCalls, <<"fs_opendir", r>>)
        /\ IF r # 0
           THEN ls_pc' = "ret" /\ ret' = r
           ELSE ls_pc' = "readdir" /\ ret' = ret
    /\ UNCHANGED <<dir, pos, count, entry, listed>>
    /\ UNCHANGED pvars

\* res = fs_readdir(&dirp, &entry): the next entry, an entry with an empty
\* name at the end of the directory, or an error, which may leave entry as it
\* was or cleared.
lsdir_readdir ==
    /\ ls_pc = "readdir"
    /\ \/ /\ res' = 0
          /\ IF pos < Len(dir)
             THEN entry' = dir[pos + 1] /\ pos' = pos + 1
             ELSE entry' = EndOfDir /\ pos' = pos
       \/ /\ res' \in FsErrnos
          /\ entry' \in {entry, EndOfDir}
          /\ UNCHANGED pos
    /\ fsCalls' = Append(fsCalls, <<"fs_readdir", res'>>)
    /\ ls_pc' = "check"
    /\ UNCHANGED <<dir, count, listed, ret>>
    /\ UNCHANGED pvars

\* the loop's exit test
lsdir_check ==
    /\ ls_pc = "check"
    /\ ls_pc' = IF LoopBreak(res, entry) THEN "closedir" ELSE "print"
    /\ UNCHANGED <<dir, pos, res, count, entry, listed, fsCalls, ret>>
    /\ UNCHANGED pvars

\* the entry is printed; count++;
lsdir_print ==
    /\ ls_pc = "print"
    /\ listed' = Append(listed, Line(entry))
    /\ count' = count + 1
    /\ ls_pc' = "readdir"
    /\ UNCHANGED <<dir, pos, res, entry, fsCalls, ret>>
    /\ UNCHANGED pvars

\* fs_closedir(&dirp); if (res == 0) { res = count; } return res;
lsdir_closedir ==
    /\ ls_pc = "closedir"
    /\ fsCalls' = Append(fsCalls, <<"fs_closedir">>)
    /\ res' = ReturnValue(res, count)
    /\ ret' = res'
    /\ ls_pc' = "ret"
    /\ UNCHANGED <<dir, pos, count, entry, listed>>
    /\ UNCHANGED pvars

LsNext ==
    \/ lsdir_opendir
    \/ lsdir_readdir
    \/ lsdir_check
    \/ lsdir_print
    \/ lsdir_closedir

LsSpec == LsInit /\ [][LsNext]_vars

\* The core keeps executing the handler and taking the traps that are due;
\* interrupt sources, wake events and the framework owe nothing.
FairSpec ==
    /\ Spec
    /\ SF_vars(HandlerStep)
    /\ WF_vars(Isr)
    /\ WF_vars(WfiWake)
    /\ WF_vars(LightSleepWake)

\* The same, with an interrupt source that keeps raising interrupts.
FairIrqSpec == FairSpec /\ WF_vars(IrqArrive)

\* ------------------------------------------------------------- properties

IsPrefix(s, t) == Len(s) <= Len(t) /\ \A i \in 1..Len(s) : s[i] = t[i]

EnterSoftOff == op = "enter" /\ state = "PM_STATE_SOFT_OFF"
EnterStandby == op = "enter" /\ state = "PM_STATE_STANDBY"
ExitSoftOff == op = "exit_post_ops" /\ state = "PM_STATE_SOFT_OFF"
ExitStandby == op = "exit_post_ops" /\ state = "PM_STATE_STANDBY"

SoftOffCalls == <<PdConfigCall, DeepSleepCall>>
StandbyExitCalls == <<IrqUnlockCall, WfiCall, LightSleepCall>>

\* C1: enter(Soft-off) records exactly the two hardware calls
\* esp_sleep_pd_config(RTC_PERIPH, ON) then esp_deep_sleep_start, in this
\* order: at every point of the call the recorded calls are a prefix of that
\* sequence, deep sleep is entered only with the domain configured ON, and
\* once deep sleep is requested the record is the whole sequence.
C1_SoftOffSequence ==
    EnterSoftOff =>
        /\ IsPrefix(calls, SoftOffCalls)
        /\ (sys = "DeepSleep" => pdRtcPeriph = "ESP_PD_OPTION_ON")
        /\ (result # "none" => result = "deep_sleep" /\ calls = SoftOffCalls)

C1_Witness ==
    EnterSoftOff /\ sys = "DeepSleep" /\ calls = SoftOffCalls

\* C2: exit_post_ops(Standby) unlocks the interrupt mask, executes wfi and
\* invokes light-sleep entry, in this order and each once: the recorded calls
\* are always a prefix of <<irq_unlock, wfi, esp_light_sleep_start>>, and the
\* whole sequence once light sleep is entered or the call has returned.
C2_StandbyExitOrder ==
    ExitStandby =>
        /\ IsPrefix(calls, StandbyExitCalls)
        /\ (sys = "LightSleep" \/ result # "none" => calls = StandbyExitCalls)

C2_Witness ==
    ExitStandby /\ result = "returned" /\ calls = StandbyExitCalls

\* C3: for a power state other than Soft-off and Standby both entry points
\* make no hardware call, change no register (power-domain option, interrupt
\* mask), keep the system Active, emit nothing but the debug log record, and
\* go on to return: the handler is never stuck and ends only by returning.
C3_UnsupportedNoEffect ==
    (op # "none" /\ state \in Unsupported) =>
        /\ calls = <<>>
        /\ sys = "Active"
        /\ pdRtcPeriph = "ESP_PD_OPTION_AUTO"
        /\ ~irqEnabled
        /\ IsPrefix(log, <<LogDbg(state)>>)
        /\ pc \in {"set_switch", "set_default", "exit_switch", "exit_default", "idle"}
        /\ (pc = "idle" => result = "returned" /\ log = <<LogDbg(state)>>)
        /\ (pc # "idle" => result = "none" /\ ENABLED HandlerStep)

C3_Witness ==
    /\ op = "exit_post_ops" /\ state \in Unsupported /\ result = "returned"
    /\ prev.op = "enter" /\ prev.state \in Unsupported /\ prev.result = "returned"

\* C4: the substate identifier does not influence behaviour: two consecutive
\* calls of the same entry point with the same power state end with the same
\* recorded hardware calls, the same log records and the same outcome,
\* whatever their substate identifiers.
C4_SubstateIgnored ==
    (result # "none" /\ prev.result # "none" /\ prev.op = op /\ prev.state = state) =>
        /\ prev.calls = calls
        /\ prev.log = log
        /\ prev.result = result

C4_Witness ==
    /\ result # "none" /\ prev.result # "none"
    /\ prev.op = op /\ prev.state = state
    /\ prev.substate_id # substate_id
    /\ ExitStandby

\* C5: enter(Standby) and exit_post_ops(Soft-off) make no hardware call and
\* leave every hardware register as it was on entry: the system stays
\* Active, interrupts stay masked, the power-domain option stays untouched.
C5_NoOpCombinations ==
    (EnterStandby \/ ExitSoftOff) =>
        /\ calls = <<>>
        /\ sys = "Active"
        /\ ~irqEnabled
        /\ pdRtcPeriph = "ESP_PD_OPTION_AUTO"
        /\ (pc = "idle" => result = "returned")

C5_Witness ==
    /\ ExitSoftOff /\ result = "returned"
    /\ prev.op = "enter" /\ prev.state = "PM_STATE_STANDBY" /\ prev.result = "returned"

\* C6: enter(Soft-off) does not return: the deep-sleep request puts the system
\* in Deep-Sleep, the call never ends by returning, and the only step out of
\* Deep-Sleep is the wake/reset that brings the system back to Active outside
\* the handler, with no further hardware call or log record of the handler.
C6_SoftOffNoReturn ==
    [][ /\ (pc = "set_deep_sleep" /\ pc' # pc => sys' = "DeepSleep")
        /\ (op' = "enter" /\ state' = "PM_STATE_SOFT_OFF" => result' # "returned")
        /\ (sys = "DeepSleep" =>
               /\ sys' = "Active" /\ pc' = "idle"
               /\ calls' = calls /\ log' = log /\ result' = result) ]_vars

C6_Witness ==
    /\ prev.op = "enter" /\ prev.state = "PM_STATE_SOFT_OFF"
    /\ prev.result = "deep_sleep" /\ prev.calls = SoftOffCalls
    /\ op # "none" /\ sys = "Active"

\* The system states the standby path may visit.
StandbyPathStates ==
    /\ (EnterStandby => sys = "Active")
    /\ (ExitStandby => sys \in {"Active", "Halted", "LightSleep"})

\* C7: the standby path: enter(Standby) leaves the system Active;
\* exit_post_ops(Standby) leads to Light-Sleep; with an interrupt source that
\* keeps raising interrupts the system then returns to Active and
\* exit_post_ops returns; only Active, the wfi halt and Light-Sleep are
\* visited on this path.
C7_StandbyPath ==
    /\ []StandbyPathStates
    /\ (ExitStandby /\ pc = "exit_switch") ~> (ExitStandby /\ sys = "LightSleep")
    /\ (ExitStandby /\ sys = "LightSleep")
           ~> (ExitStandby /\ pc = "idle" /\ result = "returned" /\ sys = "Active")

C7_Witness ==
    /\ ExitStandby /\ result = "returned" /\ sys = "Active"
    /\ prev.op = "enter" /\ prev.state = "PM_STATE_STANDBY" /\ prev.result = "returned"

\* C8: an interrupt already pending when exit_post_ops(Standby) is called
\* with interrupts masked is serviced, and the handler reaches light-sleep
\* entry without any further interrupt.
C8_PendingIrqReachesLightSleep ==
    (ExitStandby /\ pc = "exit_switch" /\ entryIrq = "pending")
        ~> (ExitStandby /\ entryIrq = "serviced" /\ calls = StandbyExitCalls)

\* C9: with interrupts masked on entry, only exit_post_ops(Standby) changes
\* the interrupt mask: during and after every other call interrupts are still
\* masked (up to the reset that follows deep sleep), and exit_post_ops(Standby)
\* has them enabled from its irq_unlock on.
C9_IrqMaskFrame ==
    /\ (op # "none" /\ ~ExitStandby /\ ~(result = "deep_sleep" /\ sys = "Active"))
           => ~irqEnabled
    /\ ExitStandby => (irqEnabled <=> Len(calls) >= 1)

C9_Witness ==
    /\ ExitStandby /\ result = "returned" /\ irqEnabled
    /\ prev.op = "enter" /\ prev.result = "returned"

\* The fs_* calls of a given name among those made so far.
CallsNamed(name) == {i \in 1..Len(fsCalls) : fsCalls[i][1] = name}

Reads == CallsNamed("fs_readdir")

\* The first n entries of the directory as lsdir prints them.
Listing(n) == [i \in 1..n |-> Line(dir[i])]

\* C10: when lsdir returns: if fs_opendir failed, its error is returned and
\* nothing was read or closed; otherwise the directory was closed exactly
\* once, as the last call; every read but the last succeeded; if the last
\* read failed, its (non-zero) error is returned instead of the count, and the
\* entries before it are those listed; if it succeeded it was the end of the
\* directory, the whole directory was listed and the number of listed entries
\* is returned.
C10_LsdirReturn ==
    ls_pc = "ret" =>
        LET n == Len(fsCalls)
            opened == fsCalls[1][2] = 0
            lastRead == fsCalls[n - 1]
        IN  /\ n >= 1 /\ fsCalls[1][1] = "fs_opendir"
            /\ CallsNamed("fs_opendir") = {1}
            /\ ~opened =>
                 /\ n = 1
                 /\ ret = fsCalls[1][2] /\ ret # 0
                 /\ listed = <<>>
            /\ opened =>
                 /\ CallsNamed("fs_closedir") = {n}
                 /\ Reads = 2..(n - 1) /\ Reads # {}
                 /\ \A i \in Reads : i < n - 1 => fsCalls[i][2] = 0
                 /\ lastRead[2] # 0 =>
                      /\ ret = lastRead[2] /\ ret # 0 /\ ret # Len(listed)
                      /\ Len(listed) = n - 3
                      /\ Len(listed) <= Len(dir)
                      /\ listed = Listing(Len(listed))
                 /\ lastRead[2] = 0 =>
                      /\ ret = Len(listed)
                      /\ listed = Listing(Len(dir))

C10_Witness ==
    /\ ls_pc = "ret" /\ ret \in FsErrnos
    /\ Len(listed) >= 1
    /\ fsCalls[Len(fsCalls)] = <<"fs_closedir">>
    /\ fsCalls[Len(fsCalls) - 1] = <<"fs_readdir", ret>>

====
